---- MODULE Spec2Model ----
(***************************************************************************)
(* bevy_http: HttpAssetReader (src/src/lib.rs).                            *)
(*                                                                         *)
(* A plugin registers an asset source whose reader is built from a base    *)
(* URL and a "fake slash" string.  The host calls read / read_meta /       *)
(* read_directory / is_directory on one shared reader; every call returns  *)
(* a future that the host polls.  read and read_meta rewrite the path      *)
(* (str::replace of the fake slash by "/"), send one GET and map the       *)
(* transport's answer to Ok(bytes), NotFound(path) or Io(..).              *)
(*                                                                         *)
(* Strings are sequences of one-character strings.                         *)
(***************************************************************************)
EXTENDS Naturals, Sequences, FiniteSets

VARIABLES
    plugin,         \* HttpAssetReaderPlugin { id, base_url, fake_slash }
    registered,     \* the asset source (the reader factory) is registered
    reader,         \* the HttpAssetReader instance, or NoReader
    panicked,       \* an expect() in HttpAssetReader::new failed
    calls,          \* the futures handed to the host, in creation order
    net,            \* the transport: "up" or "down"
    errors_logged   \* number of error! diagnostics emitted

vars == <<plugin, registered, reader, panicked, calls, net, errors_logged>>

----------------------------------------------------------------------------
(* Bounds *)

MaxCalls == 2
MaxPathLen == 3
MaxSlashLen == 2

----------------------------------------------------------------------------
(* Strings *)

BadByte == "xFF"            \* a byte of an OsStr that is not valid UTF-8
ReplChar == "uFFFD"         \* U+FFFD REPLACEMENT CHARACTER
Slash == "/"

PathChars == {"a", "-", Slash, BadByte}
SlashChars == {"a", "-", Slash}

SeqsUpTo(S, n) == UNION {[1..k -> S] : k \in 0..n}

AllPaths == SeqsUpTo(PathChars, MaxPathLen)
AllSlashes == SeqsUpTo(SlashChars, MaxSlashLen)

\* the paths and the fake slash of the concurrent runs
CallPaths == {<<"a">>, <<"-", "-", "a">>}
CallSlashes == {<<"-", "-">>}

META == <<".", "m", "e", "t", "a">>

\* Path::display().to_string(): lossy, invalid bytes become U+FFFD
Display(p) == [i \in 1..Len(p) |-> IF p[i] = BadByte THEN ReplChar ELSE p[i]]

\* faulty variant of MatchAt: the bound is off by one, so a match that ends
\* at the last character is missed
MatchAtMissEnd(h, s, i) ==
    /\ i + Len(s) - 1 < Len(h)
    /\ \A k \in 1..Len(s) : h[i + k - 1] = s[k]

MatchAt(h, s, i) ==
    /\ i + Len(s) - 1 <= Len(h)
    /\ \A k \in 1..Len(s) : h[i + k - 1] = s[k]

\* str::match_indices: the starts of the matches of s in h found by one
\* left-to-right scan that resumes after the end of each match; the empty
\* pattern matches at every character boundary (1 .. Len(h)+1)
RECURSIVE MatchIndicesFrom(_, _, _)
MatchIndicesFrom(h, s, i) ==
    IF s = <<>>
    THEN 1..(Len(h) + 1)
    ELSE IF i > Len(h)
    THEN {}
    ELSE IF MatchAt(h, s, i)
    THEN {i} \cup MatchIndicesFrom(h, s, i + Len(s))
    ELSE MatchIndicesFrom(h, s, i + 1)

MatchIndices(h, s) == MatchIndicesFrom(h, s, 1)

\* str::replace(s, "/"): copy h, writing "/" in place of each match
RECURSIVE ReplaceFrom(_, _, _, _)
ReplaceFrom(h, s, m, i) ==
    IF i > Len(h)
    THEN (IF i \in m THEN <<Slash>> ELSE <<>>)
    ELSE IF i \in m
    THEN IF s = <<>>
         THEN <<Slash, h[i]>> \o ReplaceFrom(h, s, m, i + 1)
         ELSE <<Slash>> \o ReplaceFrom(h, s, m, i + Len(s))
    ELSE <<h[i]>> \o ReplaceFrom(h, s, m, i + 1)

\* faulty variant of Replace: str::replacen(s, "/", 1), only the first match
ReplaceFirstOnly(h, s) ==
    LET m == MatchIndices(h, s)
        first == {i \in m : \A j \in m : i <= j}
    IN ReplaceFrom(h, s, first, 1)

Replace(h, s) == ReplaceFrom(h, s, MatchIndices(h, s), 1)

\* read: path.display().to_string().replace(&self.fake_slash, "/")
ResolvePath(p, fake_slash) == Replace(Display(p), fake_slash)

\* faulty variant of MetaPath: the suffix is appended before the rewrite
MetaPathSuffixFirst(p, fake_slash) == Replace(Display(p) \o META, fake_slash)

\* read_meta: the same rewrite, then + ".meta"
MetaPath(p, fake_slash) == ResolvePath(p, fake_slash) \o META

----------------------------------------------------------------------------
(* Construction *)

\* base URLs a plugin may be configured with
BaseUrls == { <<"h", ":", "/", "/", "h", "/">>, <<"/", "h">>, <<>> }

IsAlpha(c) == c \in {"h", "a"}

\* surf::Url::parse: an absolute URL starts with a scheme and ":"; anything
\* else is a relative URL without a base, which is an error
UrlParse(u) ==
    IF \E k \in 2..Len(u) : u[k] = ":" /\ \A j \in 1..(k - 1) : IsAlpha(u[j])
    THEN [ok |-> TRUE, url |-> u]
    ELSE [ok |-> FALSE, url |-> <<>>]

TimeoutSecs == 5

NoReader == [built |-> FALSE, base_url |-> <<>>, fake_slash |-> <<>>, timeout |-> 0]

InitWith(slashes) ==
    /\ plugin \in [id : {"http"}, base_url : BaseUrls, fake_slash : slashes]
    /\ registered = FALSE
    /\ reader = NoReader
    /\ panicked = FALSE
    /\ calls = <<>>
    /\ net = "up"
    /\ errors_logged = 0

Init == InitWith(CallSlashes)

\* HttpAssetReaderPlugin::build: register the source with its reader factory
Build ==
    /\ ~registered
    /\ registered' = TRUE
    /\ UNCHANGED <<plugin, reader, panicked, calls, net, errors_logged>>

\* faulty variant of New: a base URL that does not parse is dropped instead of
\* aborting, and the client is built without one
NewNoCheck(client_ok) ==
    /\ registered /\ ~panicked /\ ~reader.built
    /\ LET parsed == UrlParse(plugin.base_url) IN
       IF ~client_ok
       THEN panicked' = TRUE /\ reader' = reader
       ELSE /\ panicked' = FALSE
            /\ reader' = [built |-> TRUE, base_url |-> parsed.url,
                          fake_slash |-> plugin.fake_slash, timeout |-> TimeoutSecs]
    /\ UNCHANGED <<plugin, registered, calls, net, errors_logged>>

\* HttpAssetReader::new, run by the registered factory
New(client_ok) ==
    /\ registered /\ ~panicked /\ ~reader.built
    /\ LET parsed == UrlParse(plugin.base_url) IN
       IF ~parsed.ok
       THEN panicked' = TRUE /\ reader' = reader         \* expect("invalid base url")
       ELSE IF ~client_ok
       THEN panicked' = TRUE /\ reader' = reader         \* expect("could not create http client")
       ELSE /\ panicked' = FALSE
            /\ reader' = [built |-> TRUE, base_url |-> parsed.url,
                          fake_slash |-> plugin.fake_slash, timeout |-> TimeoutSecs]
    /\ UNCHANGED <<plugin, registered, calls, net, errors_logged>>

----------------------------------------------------------------------------
(* Results *)

NoResult == [tag |-> "None", why |-> "", path |-> <<>>, status |-> 0, bytes |-> <<>>, flag |-> FALSE]
OkBytes(b) == [NoResult EXCEPT !.tag = "Ok", !.bytes = b]
NotFound(path) == [NoResult EXCEPT !.tag = "NotFound", !.path = path]
IoFetch(path) == [NoResult EXCEPT !.tag = "Io", !.why = "error fetching", !.path = path]
IoStatus(st) == [NoResult EXCEPT !.tag = "Io", !.why = "bad status code", !.status = st]
IoBody(path) == [NoResult EXCEPT !.tag = "Io", !.why = "error getting bytes", !.path = path]
OkStream == [NoResult EXCEPT !.tag = "OkStream"]
OkBool(b) == [NoResult EXCEPT !.tag = "OkBool", !.flag = b]

Statuses == {100, 200, 204, 301, 404, 500}
Bodies == {<<>>, <<7>>}

\* faulty variant of IsSuccess: only 200 counts as success
IsSuccessOnly200(st) == st = 200

\* StatusCode::is_success
IsSuccess(st) == st >= 200 /\ st <= 299

\* faulty variant of StatusError: NotFound carries the path with the base
\* URL's trailing separator in front
StatusErrorFullUrl(st, path) ==
    IF st = 404 THEN NotFound(<<Slash>> \o path) ELSE IoStatus(st)

\* the error of a non-success status
StatusError(st, path) == IF st = 404 THEN NotFound(path) ELSE IoStatus(st)

----------------------------------------------------------------------------
(* Calls *)

IsFetchKind(k) == k \in {"read", "read_meta"}

NewCall(kind, p, rpath) ==
    [kind |-> kind, path |-> p, pc |-> "new", rpath |-> rpath, gets |-> <<>>,
     resp |-> "none", status |-> 0, body |-> "none", sent |-> <<>>,
     result |-> NoResult, polled |-> "no"]

Ready == reader.built /\ ~panicked

\* read: the path is rewritten before the future is built
Read(p) ==
    /\ Ready
    /\ calls' = Append(calls, NewCall("read", p, ResolvePath(p, reader.fake_slash)))
    /\ UNCHANGED <<plugin, registered, reader, panicked, net, errors_logged>>

\* read_meta: everything happens inside the future
ReadMeta(p) ==
    /\ Ready
    /\ calls' = Append(calls, NewCall("read_meta", p, <<>>))
    /\ UNCHANGED <<plugin, registered, reader, panicked, net, errors_logged>>

\* read_directory: logs the diagnostic, returns a future of an EmptyPathStream
ReadDirectory(p) ==
    /\ Ready
    /\ calls' = Append(calls, NewCall("read_directory", p, <<>>))
    /\ errors_logged' = errors_logged + 1
    /\ UNCHANGED <<plugin, registered, reader, panicked, net>>

\* is_directory: logs the diagnostic, returns a future of false
IsDirectory(p) ==
    /\ Ready
    /\ calls' = Append(calls, NewCall("is_directory", p, <<>>))
    /\ errors_logged' = errors_logged + 1
    /\ UNCHANGED <<plugin, registered, reader, panicked, net>>

\* first poll of a read / read_meta future: fetch_bytes up to client.get(path).await
PollFetch(i) ==
    /\ calls[i].pc = "new" /\ IsFetchKind(calls[i].kind)
    /\ LET c == calls[i]
           path == IF c.kind = "read_meta"
                   THEN MetaPath(c.path, reader.fake_slash)
                   ELSE c.rpath
       IN calls' = [calls EXCEPT ![i] = [c EXCEPT !.rpath = path,
                                                  !.gets = Append(c.gets, path),
                                                  !.pc = "get"]]
    /\ UNCHANGED <<plugin, registered, reader, panicked, net, errors_logged>>

\* faulty variant of PollDir: the directory query probes the transport and
\* fails when it is down
PollDirProbe(i) ==
    /\ calls[i].pc = "new" /\ ~IsFetchKind(calls[i].kind)
    /\ calls' = [calls EXCEPT ![i] =
                   [@ EXCEPT !.pc = "done",
                             !.result = IF net = "down"
                                        THEN IoFetch(calls[i].path)
                                        ELSE IF calls[i].kind = "read_directory"
                                        THEN OkStream ELSE OkBool(FALSE)]]
    /\ UNCHANGED <<plugin, registered, reader, panicked, net, errors_logged>>

\* poll of a read_directory / is_directory future: ready at once
PollDir(i) ==
    /\ calls[i].pc = "new" /\ ~IsFetchKind(calls[i].kind)
    /\ calls' = [calls EXCEPT ![i] =
                   [@ EXCEPT !.pc = "done",
                             !.result = IF calls[i].kind = "read_directory"
                                        THEN OkStream ELSE OkBool(FALSE)]]
    /\ UNCHANGED <<plugin, registered, reader, panicked, net, errors_logged>>

\* EmptyPathStream::poll_next
PollNext(i) ==
    /\ calls[i].pc = "done" /\ calls[i].result.tag = "OkStream"
    /\ calls[i].polled = "no"
    /\ calls' = [calls EXCEPT ![i] = [@ EXCEPT !.polled = "Ready(None)"]]
    /\ UNCHANGED <<plugin, registered, reader, panicked, net, errors_logged>>

\* faulty variant of RespondErr: a connection failure fails every request
\* that is waiting for its response
RespondErrPoisons(i) ==
    /\ calls[i].pc = "get"
    /\ calls' = [k \in DOMAIN calls |->
                   IF calls[k].pc = "get"
                   THEN [calls[k] EXCEPT !.resp = "err", !.pc = "done",
                                         !.result = IoFetch(calls[k].rpath)]
                   ELSE calls[k]]
    /\ UNCHANGED <<plugin, registered, reader, panicked, net, errors_logged>>

\* faulty variant of RespondErr: the first connection failure is retried
RespondErrRetry(i) ==
    /\ calls[i].pc = "get"
    /\ calls' = [calls EXCEPT ![i] =
                   IF Len(calls[i].gets) < 2
                   THEN [@ EXCEPT !.gets = Append(@, calls[i].rpath)]
                   ELSE [@ EXCEPT !.resp = "err", !.pc = "done",
                                  !.result = IoFetch(calls[i].rpath)]]
    /\ UNCHANGED <<plugin, registered, reader, panicked, net, errors_logged>>

\* client.get(path).await resolves to Err: connection failure or timeout
RespondErr(i) ==
    /\ calls[i].pc = "get"
    /\ calls' = [calls EXCEPT ![i] =
                   [@ EXCEPT !.resp = "err", !.pc = "done",
                             !.result = IoFetch(calls[i].rpath)]]
    /\ UNCHANGED <<plugin, registered, reader, panicked, net, errors_logged>>

\* client.get(path).await resolves to a response with status st
RespondStatus(i, st) ==
    /\ calls[i].pc = "get"
    /\ net = "up"
    /\ calls' = [calls EXCEPT ![i] =
                   IF IsSuccess(st)
                   THEN [@ EXCEPT !.resp = "ok", !.status = st, !.pc = "body"]
                   ELSE [@ EXCEPT !.resp = "ok", !.status = st, !.pc = "done",
                                  !.result = StatusError(st, calls[i].rpath)]]
    /\ UNCHANGED <<plugin, registered, reader, panicked, net, errors_logged>>

\* resp.body_bytes().await resolves to the body b
BodyOk(i, b) ==
    /\ calls[i].pc = "body"
    /\ net = "up"
    /\ calls' = [calls EXCEPT ![i] =
                   [@ EXCEPT !.body = "ok", !.sent = b, !.pc = "done",
                             !.result = OkBytes(b)]]
    /\ UNCHANGED <<plugin, registered, reader, panicked, net, errors_logged>>

\* faulty variant of BodyErr: a failed body read also rebuilds the client
\* without its base URL
BodyErrResetsClient(i) ==
    /\ calls[i].pc = "body"
    /\ calls' = [calls EXCEPT ![i] =
                   [@ EXCEPT !.body = "err", !.pc = "done",
                             !.result = IoBody(calls[i].rpath)]]
    /\ reader' = [reader EXCEPT !.base_url = <<>>]
    /\ UNCHANGED <<plugin, registered, panicked, net, errors_logged>>

\* resp.body_bytes().await resolves to Err
BodyErr(i) ==
    /\ calls[i].pc = "body"
    /\ calls' = [calls EXCEPT ![i] =
                   [@ EXCEPT !.body = "err", !.pc = "done",
                             !.result = IoBody(calls[i].rpath)]]
    /\ UNCHANGED <<plugin, registered, reader, panicked, net, errors_logged>>

\* the transport goes down or comes back
NetFlip ==
    /\ net' = IF net = "up" THEN "down" ELSE "up"
    /\ UNCHANGED <<plugin, registered, reader, panicked, calls, errors_logged>>

----------------------------------------------------------------------------
(* Specifications *)

\* one shared reader, up to MaxCalls calls in flight at once
Next ==
    \/ Build
    \/ \E client_ok \in BOOLEAN : New(client_ok)
    \/ Len(calls) < MaxCalls /\ \E p \in CallPaths : Read(p)
    \/ Len(calls) < MaxCalls /\ \E p \in CallPaths : ReadMeta(p)
    \/ Len(calls) < MaxCalls /\ \E p \in CallPaths : ReadDirectory(p)
    \/ Len(calls) < MaxCalls /\ \E p \in CallPaths : IsDirectory(p)
    \/ \E i \in DOMAIN calls : PollFetch(i)
    \/ \E i \in DOMAIN calls : PollDir(i)
    \/ \E i \in DOMAIN calls : PollNext(i)
    \/ \E i \in DOMAIN calls : RespondErr(i)
    \/ \E i \in DOMAIN calls, st \in Statuses : RespondStatus(i, st)
    \/ \E i \in DOMAIN calls, b \in Bodies : BodyOk(i, b)
    \/ \E i \in DOMAIN calls : BodyErr(i)
    \/ NetFlip

Spec == Init /\ [][Next]_vars

\* one read or read_meta call, over every path and every fake slash
InitResolve == InitWith(AllSlashes)

NextResolve ==
    \/ Build
    \/ \E client_ok \in BOOLEAN : New(client_ok)
    \/ calls = <<>> /\ \E p \in AllPaths : Read(p)
    \/ calls = <<>> /\ \E p \in AllPaths : ReadMeta(p)
    \/ \E i \in DOMAIN calls : PollFetch(i)
    \/ \E i \in DOMAIN calls : RespondErr(i)
    \/ \E i \in DOMAIN calls, st \in Statuses : RespondStatus(i, st)
    \/ \E i \in DOMAIN calls, b \in Bodies : BodyOk(i, b)
    \/ \E i \in DOMAIN calls : BodyErr(i)

SpecResolve == InitResolve /\ [][NextResolve]_vars

----------------------------------------------------------------------------
(* Properties *)

FetchCalls == {i \in DOMAIN calls : IsFetchKind(calls[i].kind)}
DirCalls == {i \in DOMAIN calls : ~IsFetchKind(calls[i].kind)}
Issued(i) == calls[i].pc # "new"
Finished(i) == calls[i].pc = "done"
Failed(i) == Finished(i) /\ calls[i].result.tag \in {"Io", "NotFound"}

\* the starts of all occurrences of s in h, overlapping ones included
Occ(h, s) == {i \in 1..(Len(h) - Len(s) + 1) : SubSeq(h, i, i + Len(s) - 1) = s}

\* the table of section 4.1, read off the transport's answer to the call's GET
TableOutcome(c) ==
    IF c.resp = "err" THEN "Io"
    ELSE IF c.status \in 200..299
    THEN (IF c.body = "ok" THEN "Ok" ELSE "Io")
    ELSE IF c.status = 404 THEN "NotFound"
    ELSE "Io"

\* C1: a finished read / read_meta call has the outcome the status table
\* gives for the transport's answer to its GET: connection failure -> Io;
\* 2xx and a readable body B -> Ok with bytes = B; 2xx and a failed body read
\* -> Io; 404 -> NotFound carrying the requested path; any other status -> Io.
Thm_C1_StatusMapping ==
    \A i \in FetchCalls : Finished(i) =>
        LET c == calls[i] IN
        /\ c.resp \in {"err", "ok"}
        /\ c.resp = "ok" => c.status \in Statuses
        /\ (c.resp = "ok" /\ c.status \in 200..299) => c.body \in {"ok", "err"}
        /\ c.result.tag = TableOutcome(c)
        /\ c.result.tag = "Ok" => c.result.bytes = c.sent
        /\ c.result.tag = "NotFound" => c.result.path = c.gets[Len(c.gets)]

Wit_C1_StatusMapping ==
    \E i, j \in FetchCalls :
        /\ calls[i].kind = "read" /\ calls[j].kind = "read_meta"
        /\ Finished(i) /\ calls[i].status = 204 /\ calls[i].result = OkBytes(<<7>>)
        /\ Finished(j) /\ calls[j].status = 500 /\ calls[j].result.tag = "Io"

\* S is what one left-to-right scan picks: an occurrence is in S exactly when
\* no earlier member of S overlaps it
LeftmostNonOverlapping(S, h, s) ==
    \A i \in Occ(h, s) :
        i \in S <=> ~\E j \in S : j < i /\ i < j + Len(s)

\* r is h with exactly the occurrences starting in S replaced by "/"
IsRewrite(r, h, s, S) ==
    LET shrink(k) == (Len(s) - 1) * Cardinality({j \in S : j < k})
        covered(k) == \E j \in S : j <= k /\ k < j + Len(s)
    IN /\ Len(r) = Len(h) - (Len(s) - 1) * Cardinality(S)
       /\ \A j \in S : j - shrink(j) \in 1..Len(r) /\ r[j - shrink(j)] = Slash
       /\ \A k \in 1..Len(h) : ~covered(k) =>
              k - shrink(k) \in 1..Len(r) /\ r[k - shrink(k)] = h[k]

\* C2 as stated: in the path read(p) requests, every occurrence of a
\* non-empty fake slash in p, overlapping ones included, is replaced by "/"
\* (taken here only for a fake slash that holds no "/" itself).
CE_C2_EveryOccurrence ==
    \A i \in FetchCalls :
        (calls[i].kind = "read" /\ Issued(i) /\ reader.fake_slash # <<>>
            /\ Slash \notin {reader.fake_slash[k] : k \in 1..Len(reader.fake_slash)}) =>
            IsRewrite(calls[i].gets[1], Display(calls[i].path), reader.fake_slash,
                      Occ(Display(calls[i].path), reader.fake_slash))

\* C2 amended: the path read(p) requests is p with every occurrence of the
\* non-empty fake slash that one left-to-right scan meets replaced by "/"
\* (adjacent occurrences and occurrences at the start or the end included);
\* an occurrence that overlaps an earlier replaced one is not replaced.
Thm_C2_ScanOccurrences ==
    \A i \in FetchCalls :
        (calls[i].kind = "read" /\ Issued(i) /\ reader.fake_slash # <<>>) =>
            LET h == Display(calls[i].path)
                s == reader.fake_slash
            IN \E S \in SUBSET Occ(h, s) :
                  /\ LeftmostNonOverlapping(S, h, s)
                  /\ IsRewrite(calls[i].gets[1], h, s, S)

Wit_C2_ScanOccurrences ==
    \E i \in FetchCalls :
        LET h == Display(calls[i].path)
            s == reader.fake_slash
        IN /\ calls[i].kind = "read" /\ Issued(i) /\ s # <<>>
           /\ 1 \in Occ(h, s) /\ (Len(h) - Len(s) + 1) \in Occ(h, s)
           /\ \E a, b \in Occ(h, s) : b = a + Len(s)
           /\ Occ(calls[i].gets[1], s) = {}

ValidUnicode(p) == BadByte \notin {p[k] : k \in 1..Len(p)}

\* C3 as stated: a read(p) answered 404 fails with NotFound carrying p
\* (taken here only for a non-empty fake slash and a valid Unicode p).
CE_C3_NotFoundCarriesP ==
    \A i \in FetchCalls :
        (calls[i].kind = "read" /\ Finished(i) /\ calls[i].status = 404
            /\ reader.fake_slash # <<>> /\ ValidUnicode(calls[i].path)) =>
            calls[i].result = NotFound(calls[i].path)

\* C3 amended: a read(p) answered 404 fails with NotFound carrying the path
\* that was requested (p rewritten); that is p itself whenever p is valid
\* Unicode and holds no occurrence of the fake slash.
Thm_C3_NotFoundCarriesRequested ==
    \A i \in FetchCalls :
        (calls[i].kind = "read" /\ Finished(i) /\ calls[i].resp = "ok"
            /\ calls[i].status = 404) =>
            /\ calls[i].result.tag = "NotFound"
            /\ calls[i].gets = <<calls[i].result.path>>
            /\ (ValidUnicode(calls[i].path)
                  /\ Occ(calls[i].path, reader.fake_slash) = {})
               => calls[i].result.path = calls[i].path

Wit_C3_NotFoundCarriesRequested ==
    \E i \in FetchCalls :
        /\ calls[i].kind = "read" /\ Finished(i) /\ calls[i].status = 404
        /\ reader.fake_slash = <<"-", "-">>
        /\ calls[i].path = <<"a", "-", "-">>
        /\ calls[i].result = NotFound(<<"a", Slash>>)

\* C4: the path read_meta(p) requests is the path read(p) requests followed
\* by ".meta"; the suffix is appended after the rewrite and is never itself
\* rewritten.
Thm_C4_MetaSuffix ==
    \A i \in FetchCalls : (calls[i].kind = "read_meta" /\ Issued(i)) =>
        LET g == calls[i].gets[1]
            n == Len(g) - Len(META)
        IN /\ n >= 0
           /\ SubSeq(g, n + 1, Len(g)) = META
           /\ SubSeq(g, 1, n) = ResolvePath(calls[i].path, reader.fake_slash)

Wit_C4_MetaSuffix ==
    \E i \in FetchCalls :
        /\ calls[i].kind = "read_meta" /\ Issued(i)
        /\ reader.fake_slash = <<"a">>
        /\ calls[i].path = <<"-", "a">>
        /\ calls[i].gets = << <<"-", Slash>> \o META >>

\* C5: read_directory and is_directory never fail and never touch the
\* transport: their futures are ready whatever the transport does, the stream
\* ends at its first poll, is_directory gives false, and no GET is sent.
Thm_C5_DirectoryStubs ==
    \A i \in DirCalls :
        LET c == calls[i] IN
        /\ c.gets = <<>> /\ c.resp = "none" /\ c.body = "none"
        /\ c.pc \in {"new", "done"}
        /\ c.pc = "new" => ENABLED PollDir(i)
        /\ c.pc = "done" =>
              c.result = (IF c.kind = "read_directory" THEN OkStream ELSE OkBool(FALSE))
        /\ (c.pc = "done" /\ c.kind = "read_directory" /\ c.polled = "no")
              => ENABLED PollNext(i)
        /\ c.polled \in {"no", "Ready(None)"}

Wit_C5_DirectoryStubs ==
    /\ net = "down"
    /\ \E i, j \in DirCalls :
          /\ calls[i].kind = "read_directory" /\ calls[i].polled = "Ready(None)"
          /\ calls[j].kind = "is_directory" /\ calls[j].result = OkBool(FALSE)

\* the result of a finished fetch, from the call's own request and the
\* transport's answer to it
OwnOutcome(c) ==
    IF c.resp = "err" THEN IoFetch(c.gets[1])
    ELSE IF c.status \in 200..299
    THEN (IF c.body = "ok" THEN OkBytes(c.sent) ELSE IoBody(c.gets[1]))
    ELSE IF c.status = 404 THEN NotFound(c.gets[1])
    ELSE IoStatus(c.status)

C6_Step ==
    \A i \in FetchCalls :
        \/ calls'[i] = calls[i]
        \/ /\ ~Finished(i)
           /\ \A j \in DOMAIN calls \ {i} : calls'[j] = calls[j]
           /\ calls'[i].kind = calls[i].kind /\ calls'[i].path = calls[i].path
           /\ calls'[i].pc = "done" => calls'[i].result = OwnOutcome(calls'[i])

\* C6: with several read / read_meta calls in flight, a step of one call
\* changes no other call, a finished call never changes again, and a call's
\* result is a function of its own request and the answer to it alone.
Thm_C6_Independent == [][C6_Step]_vars

Wit_C6_Independent ==
    \E i, j \in FetchCalls :
        /\ i < j
        /\ calls[i].pc = "get"
        /\ Failed(j)

\* C7: a base URL that does not parse aborts construction: no reader is ever
\* bound to an invalid base URL, and with such a configuration no call is
\* made and no GET is sent.
Thm_C7_InvalidUrlAborts ==
    /\ reader.built =>
          /\ UrlParse(plugin.base_url).ok
          /\ reader.base_url = plugin.base_url
    /\ ~UrlParse(plugin.base_url).ok => (~reader.built /\ calls = <<>>)
    /\ panicked => (~reader.built /\ calls = <<>>)

Wit_C7_InvalidUrlAborts ==
    /\ panicked
    /\ plugin.base_url = <<"/", "h">>

\* C8: once built, the reader's base URL and fake slash never change,
\* whatever calls are made and however they end.
Thm_C8_ReaderImmutable == [][reader.built => reader' = reader]_vars

Wit_C8_ReaderImmutable ==
    /\ reader = [built |-> TRUE, base_url |-> plugin.base_url,
                 fake_slash |-> plugin.fake_slash, timeout |-> TimeoutSecs]
    /\ \E i \in FetchCalls : Finished(i) /\ calls[i].body = "err"
    /\ \E j \in DirCalls : Finished(j)

\* C9: a read / read_meta call sends exactly one GET once polled, whatever
\* its outcome: nothing is retried, and nothing is answered from a cache.
Thm_C9_OneGetPerCall ==
    \A i \in FetchCalls :
        /\ Len(calls[i].gets) = (IF Issued(i) THEN 1 ELSE 0)
        /\ Finished(i) => calls[i].resp # "none"

Wit_C9_OneGetPerCall ==
    \E i, j \in FetchCalls :
        /\ i < j
        /\ calls[i].kind = calls[j].kind /\ calls[i].path = calls[j].path
        /\ calls[i].gets = calls[j].gets
        /\ Finished(i) /\ calls[i].result.tag = "Ok"
        /\ Finished(j) /\ calls[j].resp = "err" /\ calls[j].result.tag = "Io"

\* C10: for a non-empty fake slash without "/", the path read(p) requests
\* holds no occurrence of the fake slash, so rewriting it again changes
\* nothing.
Thm_C10_Idempotent ==
    \A i \in FetchCalls :
        (calls[i].kind = "read" /\ Issued(i) /\ reader.fake_slash # <<>>
            /\ Slash \notin {reader.fake_slash[k] : k \in 1..Len(reader.fake_slash)}) =>
            /\ Occ(calls[i].gets[1], reader.fake_slash) = {}
            /\ Replace(calls[i].gets[1], reader.fake_slash) = calls[i].gets[1]

Wit_C10_Idempotent ==
    \E i \in FetchCalls :
        /\ calls[i].kind = "read" /\ Issued(i)
        /\ reader.fake_slash = <<"-", "-">>
        /\ calls[i].path = <<"-", "-", "-">>
        /\ calls[i].gets = << <<Slash, "-">> >>

====
